---- MODULE Spec2Model ----
(***************************************************************************)
(* Model of gemini-agent-demo: the start-up of api.py (which imports       *)
(* root_agent from the example_agent package), the run of the test module  *)
(* (which imports example_agent.agent), the two custom HTTP endpoints, and *)
(* the seven callback tools the agent runtime invokes.                     *)
(*                                                                         *)
(* Python values are modelled as follows.  A dict is a record.  A str is a *)
(* TLA+ string, except a tool's report, which is a sequence of pieces      *)
(* (the pieces an f-string joins): one literal piece for the six static    *)
(* tools (the literal is abbreviated to its first line), the literal       *)
(* prefix (its words and its trailing space as two pieces) followed by one *)
(* piece per character of the strftime output for get_current_time.  An    *)
(* object is a record with a cls field; a module                           *)
(* global that has not been assigned yet holds Unbound.                    *)
(***************************************************************************)
EXTENDS Integers, Sequences, FiniteSets, TLC

\* ------------------------------------------------------------- bounds
\* Number of invocation contexts the agent runtime may have in flight.
MaxInvocations == 2
\* The clock takes the values ClockAt(0) .. ClockAt(MaxTicks).
MaxTicks == 2

Slots == 1..MaxInvocations

\* ------------------------------------------------------------- values
Unbound == [cls |-> "Unbound"]

Str(s) == [cls |-> "str", value |-> s]

\* The values datetime.datetime.now() can return: a local broken-down time.
\* The sample k spreads over single- and double-digit fields.
ClockAt(k) ==
    [year   |-> 1970 + 28 * k,
     month  |-> 1 + ((11 * k) % 12),
     day    |-> 1 + ((10 * k) % 28),
     hour   |-> (23 * k) % 24,
     minute |-> (7 * k) % 60,
     second |-> (59 * k) % 60]

Clocks == {ClockAt(k) : k \in 0..MaxTicks}

\* The environments the process can be started in: the variable absent,
\* present and empty, present and set.
Environments ==
    { [x \in {} |-> ""],
      [x \in {"GEMINI_API_KEY"} |-> ""],
      [x \in {"GEMINI_API_KEY"} |-> "AIza-key"] }

\* How the process is started: "api" runs api.py as a script, "pytest" runs
\* tests/test_agent.py.
Entries == {"api", "pytest"}

\* What example_agent/__init__.py holds.  "absent": there is none (or an
\* empty one), so the package has no attribute root_agent; "import_agent":
\* `from . import agent`, which runs agent.py but binds no root_agent in the
\* package; "reexport": `from .agent import root_agent`.
PackageInits == {"absent", "import_agent", "reexport"}

\* os.environ.get(key, default)
environ_get(env, key, default) ==
    IF key \in DOMAIN env THEN env[key] ELSE default

\* Truth value of a str: "not s" is true exactly for the empty string.
KeyMissing_isNone(s) == FALSE
KeyMissing(s) == s = ""

\* ------------------------------------------------------------- strftime
DigitChar(d) == <<"0", "1", "2", "3", "4", "5", "6", "7", "8", "9">>[d + 1]

\* Decimal digits of n without padding (n >= 0).
RECURSIVE Decimal(_)
Decimal(n) == IF n < 10 THEN <<DigitChar(n)>>
              ELSE Decimal(n \div 10) \o <<DigitChar(n % 10)>>

\* n as decimal, zero-padded on the left to at least w characters.
ZeroPad_unpadded(n, w) == Decimal(n)
ZeroPad(n, w) ==
    LET d == Decimal(n)
    IN  [i \in 1..(IF Len(d) < w THEN w - Len(d) ELSE 0) |-> "0"] \o d

\* One directive or literal character of a strftime format.
Directive(now, d) ==
    CASE d = "%Y" -> ZeroPad(now.year, 4)
      [] d = "%m" -> ZeroPad(now.month, 2)
      [] d = "%d" -> ZeroPad(now.day, 2)
      [] d = "%H" -> ZeroPad(now.hour, 2)
      [] d = "%M" -> ZeroPad(now.minute, 2)
      [] d = "%S" -> ZeroPad(now.second, 2)
      [] OTHER    -> <<d>>

RECURSIVE strftime(_, _)
strftime(now, fmt) ==
    IF fmt = <<>> THEN <<>>
    ELSE Directive(now, Head(fmt)) \o strftime(now, Tail(fmt))

\* '%Y-%m-%d %H:%M:%S'
TimeFormat_dayfirst ==
    <<"%Y", "-", "%d", "-", "%m", " ", "%H", ":", "%M", ":", "%S">>
TimeFormat ==
    <<"%Y", "-", "%m", "-", "%d", " ", "%H", ":", "%M", ":", "%S">>

\* ------------------------------------------------------------- tools
get_current_time(now) ==
    [status |-> "success",
     report |-> <<"The current time is", " ">> \o strftime(now, TimeFormat)]

get_workshop_info_ok ==
    [status |-> "ok",
     report |-> <<"This workshop demonstrates AI agent integration for Ruby developers and platform engineers. Learn how to integrate Gemini API into Ruby applications, CI/CD pipelines, and Kubernetes deployments.">>]
get_workshop_info ==
    [status |-> "success",
     report |-> <<"This workshop demonstrates AI agent integration for Ruby developers and platform engineers. Learn how to integrate Gemini API into Ruby applications, CI/CD pipelines, and Kubernetes deployments.">>]

analyze_ruby_code ==
    [status |-> "success", report |-> <<"Ruby Code Integration Patterns:">>]

cicd_integration_guide ==
    [status |-> "success", report |-> <<"CI/CD Integration Patterns:">>]

kubernetes_deployment_guide ==
    [status |-> "success", report |-> <<"Kubernetes Deployment Patterns:">>]

helm_chart_patterns ==
    [status |-> "success", report |-> <<"Helm Chart Patterns:">>]

ruby_testing_patterns ==
    [status |-> "success", report |-> <<"Testing Patterns for Ruby + AI:">>]

\* A function object; its __name__ is the name of its def.
Function(name) == [cls |-> "function", name |-> name]

\* The body of function object t run with the value `now` that line 14 read
\* (only get_current_time reads it).
Call(t, now) ==
    CASE t.name = "get_current_time"            -> get_current_time(now)
      [] t.name = "get_workshop_info"           -> get_workshop_info
      [] t.name = "analyze_ruby_code"           -> analyze_ruby_code
      [] t.name = "cicd_integration_guide"      -> cicd_integration_guide
      [] t.name = "kubernetes_deployment_guide" -> kubernetes_deployment_guide
      [] t.name = "helm_chart_patterns"         -> helm_chart_patterns
      [] t.name = "ruby_testing_patterns"       -> ruby_testing_patterns

\* ------------------------------------------------------------- objects
LiteLlm(key) ==
    [cls |-> "LiteLlm", model |-> "gemini/gemini-2.0-flash", api_key |-> key]

Agent(model) ==
    [cls         |-> "Agent",
     name        |-> "ruby_workshop_agent",
     model       |-> model,
     description |-> "AI agent for Ruby developers demonstrating integration patterns, CI/CD workflows, and deployment strategies.",
     tools       |-> << Function("get_current_time"),
                        Function("get_workshop_info"),
                        Function("analyze_ruby_code"),
                        Function("cicd_integration_guide"),
                        Function("kubernetes_deployment_guide"),
                        Function("helm_chart_patterns"),
                        Function("ruby_testing_patterns") >>]

\* [t.__name__ for t in tools]
ToolNames_reversed(tools) ==
    [i \in 1..Len(tools) |-> tools[Len(tools) + 1 - i].name]
ToolNames(tools) == [i \in 1..Len(tools) |-> tools[i].name]

\* needle in report, for a needle that is one piece of the report.
Contains(report, needle) == \E k \in 1..Len(report) : report[k] = needle

IdleSlot == [pc |-> "idle", tool |-> Unbound, now |-> Unbound,
             result |-> Unbound]

\* ------------------------------------------------------------- state
VARIABLES
    entry,           \* the script the process runs
    package_init,    \* the content of example_agent/__init__.py
    environ,         \* the process environment
    pc,              \* position of the main thread in api.py, agent.py
                     \* or test_agent.py
    err,             \* the exception that ended start-up, or "none"
    app,             \* api.app
    gemini_api_key,  \* agent.gemini_api_key
    llm_model,       \* agent.llm_model
    root_agent,      \* agent.root_agent
    listening,       \* the server socket is open
    clock,           \* the local time datetime.now() would return
    inv,             \* the tool invocations in flight, by context
    info_log,        \* the last two /agent-info responses, oldest first
    health           \* the last /health response

vars == <<entry, package_init, environ, pc, err, app, gemini_api_key, llm_model, root_agent,
          listening, clock, inv, info_log, health>>

module_vars == <<gemini_api_key, llm_model, root_agent>>

Init ==
    /\ entry \in Entries
    /\ package_init \in PackageInits
    /\ environ \in Environments
    /\ pc = (IF entry = "api" THEN "api_13" ELSE "test_5")
    /\ err = "none"
    /\ app = Unbound
    /\ gemini_api_key = Unbound
    /\ llm_model = Unbound
    /\ root_agent = Unbound
    /\ listening = FALSE
    /\ clock \in Clocks
    /\ inv = [i \in Slots |-> IdleSlot]
    /\ info_log = <<>>
    /\ health = Unbound

\* ------------------------------------------------------------- start-up
\* api.py 13-17: app = get_fast_api_app(...)
CreateApp ==
    /\ pc = "api_13"
    /\ app' = [cls |-> "FastAPI", routes |-> {}]
    /\ pc' = "api_20"
    /\ UNCHANGED <<entry, package_init, environ, err, gemini_api_key, llm_model, root_agent,
                   listening, clock, inv, info_log, health>>

\* api.py 20-22: @app.get("/health")
RouteHealth ==
    /\ pc = "api_20"
    /\ app' = [app EXCEPT !.routes = @ \cup {"/health"}]
    /\ pc' = "api_25"
    /\ UNCHANGED <<entry, package_init, environ, err, gemini_api_key, llm_model, root_agent,
                   listening, clock, inv, info_log, health>>

\* api.py 25: from example_agent import root_agent.  Without a package
\* __init__ that imports the agent module the name cannot be found and the
\* ImportError ends the process; otherwise the import runs agent.py, whose
\* line 10 reads the environment.
ImportAgent ==
    /\ pc = "api_25"
    /\ IF package_init = "absent"
       THEN /\ pc' = "failed"
            /\ err' = "ImportError"
            /\ gemini_api_key' = gemini_api_key
       ELSE /\ pc' = "agent_388"
            /\ err' = err
            /\ gemini_api_key' =
                  Str(environ_get(environ, "GEMINI_API_KEY", ""))
    /\ UNCHANGED <<entry, package_init, environ, app, llm_model, root_agent,
                   listening, clock, inv, info_log, health>>

\* test_agent.py 5: from example_agent.agent import get_current_time runs
\* agent.py whatever the package __init__ holds.
TestImport ==
    /\ pc = "test_5"
    /\ gemini_api_key' = Str(environ_get(environ, "GEMINI_API_KEY", ""))
    /\ pc' = "agent_388"
    /\ UNCHANGED <<entry, package_init, environ, err, app, llm_model,
                   root_agent, listening, clock, inv, info_log, health>>

\* agent.py 388-389: the credential check; the ValueError is not caught
\* anywhere, so it ends the import and the process.
CheckKey ==
    /\ pc = "agent_388"
    /\ IF KeyMissing(gemini_api_key.value)
       THEN pc' = "failed" /\ err' = "ValueError"
       ELSE pc' = "agent_394" /\ err' = err
    /\ UNCHANGED <<entry, package_init, environ, app, gemini_api_key, llm_model, root_agent,
                   listening, clock, inv, info_log, health>>

\* agent.py 394-397
InitModel ==
    /\ pc = "agent_394"
    /\ llm_model' = LiteLlm(gemini_api_key.value)
    /\ pc' = "agent_402"
    /\ UNCHANGED <<entry, package_init, environ, err, app, gemini_api_key, root_agent, listening,
                   clock, inv, info_log, health>>

\* agent.py 402-427
CreateAgent ==
    /\ pc = "agent_402"
    /\ root_agent' = Agent(llm_model)
    /\ pc' = (IF entry = "api" THEN "api_25_bind" ELSE "test_11")
    /\ UNCHANGED <<entry, package_init, environ, err, app, gemini_api_key, llm_model, listening,
                   clock, inv, info_log, health>>

\* api.py 25, after agent.py has run: the name root_agent is looked up in
\* the package; only a re-exporting __init__ has bound it.
BindRootAgent ==
    /\ pc = "api_25_bind"
    /\ IF package_init = "reexport"
       THEN pc' = "api_26" /\ err' = err
       ELSE pc' = "failed" /\ err' = "ImportError"
    /\ UNCHANGED <<entry, package_init, environ, app, gemini_api_key,
                   llm_model, root_agent, listening, clock, inv, info_log,
                   health>>

\* api.py 26-34: @app.get("/agent-info")
RouteAgentInfo ==
    /\ pc = "api_26"
    /\ app' = [app EXCEPT !.routes = @ \cup {"/agent-info"}]
    /\ pc' = "api_36"
    /\ UNCHANGED <<entry, package_init, environ, err, gemini_api_key, llm_model, root_agent,
                   listening, clock, inv, info_log, health>>

\* api.py 36-43: uvicorn.run(app, host="0.0.0.0", port=4000)
RunServer ==
    /\ pc = "api_36"
    /\ listening' = TRUE
    /\ pc' = "serving"
    /\ UNCHANGED <<entry, package_init, environ, err, app, gemini_api_key, llm_model, root_agent,
                   clock, inv, info_log, health>>

\* ------------------------------------------------------------- requests
\* api.py 20-22
health_check ==
    /\ pc = "serving"
    /\ "/health" \in app.routes
    /\ health' = [status |-> "healthy"]
    /\ UNCHANGED <<entry, package_init, environ, pc, err, app, gemini_api_key, llm_model,
                   root_agent, listening, clock, inv, info_log>>

AgentInfoResponse ==
    [agent_name  |-> root_agent.name,
     description |-> root_agent.description,
     model       |-> root_agent.model,
     tools       |-> ToolNames(root_agent.tools)]

\* api.py 26-34
agent_info_pop ==
    /\ pc = "serving"
    /\ "/agent-info" \in app.routes
    /\ info_log' = (IF Len(info_log) = 2 THEN Tail(info_log) ELSE info_log)
                   \o <<AgentInfoResponse>>
    /\ root_agent' = [root_agent EXCEPT
                        !.tools = SubSeq(@, 1, Len(@) - 1)]
    /\ UNCHANGED <<entry, package_init, environ, pc, err, app, gemini_api_key, llm_model,
                   listening, clock, inv, health>>
agent_info ==
    /\ pc = "serving"
    /\ "/agent-info" \in app.routes
    /\ info_log' = (IF Len(info_log) = 2 THEN Tail(info_log) ELSE info_log)
                   \o <<AgentInfoResponse>>
    /\ UNCHANGED <<entry, package_init, environ, pc, err, app, gemini_api_key, llm_model,
                   root_agent, listening, clock, inv, health>>

\* ------------------------------------------------------------- tool calls
\* The agent runtime calls one of root_agent.tools in context i.
Dispatch(i) ==
    /\ pc = "serving"
    /\ inv[i].pc \in {"idle", "returned"}
    /\ \E k \in 1..Len(root_agent.tools) :
          inv' = [inv EXCEPT ![i] = [pc |-> "called",
                                     tool |-> root_agent.tools[k],
                                     now |-> Unbound,
                                     result |-> Unbound]]
    /\ UNCHANGED <<entry, package_init, environ, pc, err, app, gemini_api_key, llm_model,
                   root_agent, listening, clock, info_log, health>>

\* agent.py 14: now = datetime.datetime.now()
ReadNow(i) ==
    /\ inv[i].pc = "called"
    /\ inv[i].tool.name = "get_current_time"
    /\ inv' = [inv EXCEPT ![i].pc = "have_now", ![i].now = clock]
    /\ UNCHANGED <<entry, package_init, environ, pc, err, app, gemini_api_key, llm_model,
                   root_agent, listening, clock, info_log, health>>

\* The return statement of the tool called in context i.
Return_shared(i) ==
    /\ \/ inv[i].pc = "have_now"
       \/ inv[i].pc = "called" /\ inv[i].tool.name # "get_current_time"
    /\ \E j \in Slots :
          /\ inv[i].pc = "have_now" => inv[j].now # Unbound
          /\ inv' = [inv EXCEPT ![i].pc = "returned",
                                ![i].result = Call(inv[i].tool, inv[j].now)]
    /\ UNCHANGED <<entry, package_init, environ, pc, err, app, gemini_api_key, llm_model,
                   root_agent, listening, clock, info_log, health>>
Return(i) ==
    /\ \/ inv[i].pc = "have_now"
       \/ inv[i].pc = "called" /\ inv[i].tool.name # "get_current_time"
    /\ inv' = [inv EXCEPT ![i].pc = "returned",
                          ![i].result = Call(inv[i].tool, inv[i].now)]
    /\ UNCHANGED <<entry, package_init, environ, pc, err, app, gemini_api_key, llm_model,
                   root_agent, listening, clock, info_log, health>>

\* test_agent.py 11: result = get_current_time()
TestCall ==
    /\ pc = "test_11"
    /\ inv' = [inv EXCEPT ![1] = [pc |-> "called",
                                  tool |-> Function("get_current_time"),
                                  now |-> Unbound,
                                  result |-> Unbound]]
    /\ pc' = "test_12"
    /\ UNCHANGED <<entry, package_init, environ, err, app, gemini_api_key,
                   llm_model, root_agent, listening, clock, info_log, health>>

\* test_agent.py 12-13: the two assertions on the result.
TestAssert ==
    /\ pc = "test_12"
    /\ inv[1].pc = "returned"
    /\ IF /\ inv[1].result["status"] = "success"
          /\ Contains(inv[1].result["report"], "The current time is")
       THEN pc' = "test_passed" /\ err' = err
       ELSE pc' = "failed" /\ err' = "AssertionError"
    /\ UNCHANGED <<entry, package_init, environ, app, gemini_api_key,
                   llm_model, root_agent, listening, clock, inv, info_log,
                   health>>

\* The wall clock moves (it may also step back: local time, adjustments).
Tick ==
    /\ \E c \in Clocks : c # clock /\ clock' = c
    /\ UNCHANGED <<entry, package_init, environ, pc, err, app, gemini_api_key, llm_model,
                   root_agent, listening, inv, info_log, health>>

Next ==
    \/ CreateApp
    \/ RouteHealth
    \/ ImportAgent
    \/ TestImport
    \/ CheckKey
    \/ InitModel
    \/ CreateAgent
    \/ BindRootAgent
    \/ RouteAgentInfo
    \/ RunServer
    \/ health_check
    \/ agent_info
    \/ \E i \in Slots : Dispatch(i)
    \/ \E i \in Slots : ReadNow(i)
    \/ \E i \in Slots : Return(i)
    \/ TestCall
    \/ TestAssert
    \/ Tick

Spec == Init /\ [][Next]_vars

\* ------------------------------------------------------------- claims
Returned(i) == inv[i].pc = "returned"
IsTimeCall(i) == inv[i].tool.name = "get_current_time"

IsToolResult(r) ==
    /\ "status" \in DOMAIN r
    /\ r.status \in {"success", "error"}
    /\ r.status = "success" => "report" \in DOMAIN r /\ Len(r.report) > 0
    /\ r.status = "error" => "message" \in DOMAIN r

\* C1: every invocation of every tool of the agent's tool list returns one
\* mapping whose status is "success" or "error", with a report when it is
\* success and a message when it is error: this holds of the body of each
\* listed tool for every clock value, and of every result an invocation has
\* returned.
C1_ToolResultEnvelope ==
    /\ root_agent # Unbound =>
          \A k \in 1..Len(root_agent.tools) : \A c \in Clocks :
              IsToolResult(Call(root_agent.tools[k], c))
    /\ \A i \in Slots : Returned(i) => IsToolResult(inv[i].result)

\* Two invocations of different tools, one of them the workshop-info tool,
\* have both returned.
C1_Witness ==
    \E i, j \in Slots :
        /\ Returned(i) /\ Returned(j)
        /\ inv[i].tool.name = "get_workshop_info"
        /\ inv[j].tool.name = "get_current_time"

AbsentOrEmpty ==
    \/ "GEMINI_API_KEY" \notin DOMAIN environ
    \/ environ["GEMINI_API_KEY"] = ""

\* C2 (as amended): started with GEMINI_API_KEY absent or empty, start-up
\* never gets past the import of the agent: it ends with the ValueError of
\* the credential check whenever agent.py is executed (with an ImportError
\* before that when the package does not import the agent module), no
\* LiteLlm object, no Agent and no listening socket ever exists, no request
\* or tool call is served, and when api.py is the script the only things
\* initialized at the failure are the FastAPI application object and its
\* /health route, which api.py creates before it imports the agent.
C2_NoStartWithoutKey ==
    AbsentOrEmpty =>
        /\ llm_model = Unbound
        /\ root_agent = Unbound
        /\ ~listening
        /\ pc \in {"api_13", "api_20", "api_25", "test_5", "agent_388",
                   "failed"}
        /\ info_log = <<>> /\ health = Unbound
        /\ \A i \in Slots : inv[i] = IdleSlot
        /\ pc = "failed" =>
              /\ err = (IF gemini_api_key = Unbound THEN "ImportError"
                                                   ELSE "ValueError")
              /\ gemini_api_key = Unbound =>
                    (entry = "api" /\ package_init = "absent")
              /\ entry = "api" =>
                    app = [cls |-> "FastAPI", routes |-> {"/health"}]
              /\ entry = "pytest" => app = Unbound

\* api.py was started with the variable present but empty, and start-up
\* has failed with the application object already built.
C2_Witness ==
    /\ pc = "failed"
    /\ entry = "api"
    /\ "GEMINI_API_KEY" \in DOMAIN environ /\ AbsentOrEmpty
    /\ app # Unbound

\* C2 as stated: at the moment the failure is raised no model object, no
\* agent, no HTTP application object and no listening socket exists.
C2_Original ==
    (AbsentOrEmpty /\ pc = "failed") =>
        /\ llm_model = Unbound
        /\ root_agent = Unbound
        /\ app = Unbound
        /\ ~listening

ExpectedToolNames ==
    << "get_current_time", "get_workshop_info", "analyze_ruby_code",
       "cicd_integration_guide", "kubernetes_deployment_guide",
       "helm_chart_patterns", "ruby_testing_patterns" >>

\* C6: the tools are listed in registration order: the agent's tool list
\* holds the seven tools in the order of the Agent(...) call, every
\* /agent-info response reports exactly these names in this order, none
\* omitted or repeated, and two successive responses list the same sequence.
C6_ListingInRegistrationOrder ==
    /\ root_agent # Unbound =>
          /\ Len(root_agent.tools) = Len(ExpectedToolNames)
          /\ \A k \in 1..Len(root_agent.tools) :
                root_agent.tools[k].name = ExpectedToolNames[k]
    /\ \A k \in 1..Len(info_log) :
          /\ info_log[k].tools = ExpectedToolNames
          /\ Cardinality({info_log[k].tools[n] :
                            n \in 1..Len(info_log[k].tools)}) = 7
    /\ Len(info_log) = 2 => info_log[1].tools = info_log[2].tools

\* Two successive /agent-info responses have been produced.
C6_Witness == Len(info_log) = 2

\* C7: once start-up has ended, no health-check request, agent-info request
\* or tool invocation step changes the agent: its name, description, model
\* reference and ordered tool list stay what Agent(...) made them.
C7_AgentNeverMutated ==
    [][pc = "serving" => (root_agent' = root_agent /\ pc' = "serving")]_vars

\* Health checks, agent-info requests and tool invocations have all happened
\* and the agent is the one start-up built.
C7_Witness ==
    /\ pc = "serving"
    /\ health # Unbound
    /\ Len(info_log) > 0
    /\ \E i \in Slots : Returned(i)
    /\ root_agent = Agent(LiteLlm(environ["GEMINI_API_KEY"]))
    /\ app.routes = {"/health", "/agent-info"}

IsDigit(ch) == \E d \in 0..9 : ch = DigitChar(d)
DigitValue(ch) == CHOOSE d \in 0..9 : ch = DigitChar(d)

RECURSIVE Number(_)
Number(chars) ==
    IF chars = <<>> THEN 0
    ELSE 10 * Number(SubSeq(chars, 1, Len(chars) - 1))
         + DigitValue(chars[Len(chars)])

\* ts has the shape YYYY-MM-DD HH:MM:SS and reads back as the time t.
IsTimestampOf(ts, t) ==
    /\ Len(ts) = 19
    /\ ts[5] = "-" /\ ts[8] = "-" /\ ts[11] = " "
    /\ ts[14] = ":" /\ ts[17] = ":"
    /\ \A n \in (1..19) \ {5, 8, 11, 14, 17} : IsDigit(ts[n])
    /\ Number(SubSeq(ts, 1, 4)) = t.year
    /\ Number(SubSeq(ts, 6, 7)) = t.month
    /\ Number(SubSeq(ts, 9, 10)) = t.day
    /\ Number(SubSeq(ts, 12, 13)) = t.hour
    /\ Number(SubSeq(ts, 15, 16)) = t.minute
    /\ Number(SubSeq(ts, 18, 19)) = t.second

\* C8: every result get_current_time has returned has status "success" and
\* a report made of "The current time is " followed by the local time the
\* invocation read, written as YYYY-MM-DD HH:MM:SS with a four-digit year
\* and two-digit month, day, hour, minute and second; the assertions of
\* test_get_current_time never fail.
C8_TimeReport ==
    /\ err # "AssertionError"
    /\ \A i \in Slots :
          (Returned(i) /\ IsTimeCall(i)) =>
              /\ inv[i].result.status = "success"
              /\ DOMAIN inv[i].result = {"status", "report"}
              /\ Len(inv[i].result.report) = 21
              /\ SubSeq(inv[i].result.report, 1, 2)
                    = <<"The current time is", " ">>
              /\ IsTimestampOf(SubSeq(inv[i].result.report, 3, 21),
                               inv[i].now)

\* get_current_time has returned for a time whose month and day differ and
\* whose minute needs a leading zero.
C8_Witness ==
    \E i \in Slots :
        /\ Returned(i) /\ IsTimeCall(i)
        /\ inv[i].now.month # inv[i].now.day
        /\ inv[i].now.minute < 10

\* C9: two invocations of the same tool return results with the same status
\* and the same fields; for every tool but get_current_time the reports are
\* equal, and for get_current_time they have the same length and differ only
\* where both hold a digit of the timestamp.
C9_RepeatedInvocation ==
    \A i, j \in Slots :
        (Returned(i) /\ Returned(j) /\ inv[i].tool = inv[j].tool) =>
            LET a == inv[i].result
                b == inv[j].result
            IN  /\ a.status = b.status
                /\ DOMAIN a = DOMAIN b
                /\ ~IsTimeCall(i) => a.report = b.report
                /\ IsTimeCall(i) =>
                      /\ Len(a.report) = Len(b.report)
                      /\ a.report[1] = b.report[1]
                      /\ a.report[2] = b.report[2]
                      /\ \A n \in 3..Len(a.report) :
                            \/ a.report[n] = b.report[n]
                            \/ IsDigit(a.report[n]) /\ IsDigit(b.report[n])

\* get_current_time has returned twice, for two clock values of which one
\* has a one-digit month and the other a two-digit month.
C9_Witness ==
    \E i, j \in Slots :
        /\ i # j /\ Returned(i) /\ Returned(j)
        /\ inv[i].tool = inv[j].tool
        /\ IsTimeCall(i) /\ inv[i].now # inv[j].now
        /\ inv[i].now.month < 10 /\ inv[j].now.month >= 10

\* C10: invocations are independent: whatever else is in flight, a returned
\* result is the one the tool's body yields on its own from the clock value
\* this invocation read, and while the server runs no step of an invocation
\* or of a request changes gemini_api_key, llm_model or root_agent.
C10_Independent ==
    /\ [](\A i \in Slots :
            Returned(i) => inv[i].result = Call(inv[i].tool, inv[i].now))
    /\ [][pc = "serving" => UNCHANGED module_vars]_vars

\* Two get_current_time invocations that read different clock values have
\* returned while another invocation is still in flight or HTTP requests
\* were answered.
C10_Witness ==
    \E i, j \in Slots :
        /\ i # j /\ Returned(i) /\ Returned(j)
        /\ IsTimeCall(i) /\ IsTimeCall(j)
        /\ inv[i].now # inv[j].now
        /\ Len(info_log) > 0 /\ health # Unbound

====
